---------------------------- MODULE Spec2Model ----------------------------
(***************************************************************************)
(* The packet assembly pipeline of the PDF packet worker.                  *)
(*                                                                         *)
(* The repository holds two implementations of the /generate-packet        *)
(* handler, and a request may be served by either:                         *)
(*   PacketWorker  - src/unnamed/part_006 (fetch + generatePDFPacket)      *)
(*   InlineWorker  - src/worker/src/index.ts (fetch with the loop inline)  *)
(* One run of the handler is modelled, step by step, from the parse of     *)
(* the request body to the response.  The outcome of every fetch, load and *)
(* page copy is chosen nondeterministically when the step is taken.        *)
(* The page builders (addCoverPage, addDividerPage, addErrorPage) are      *)
(* taken to succeed on descriptors whose name and type are strings.        *)
(***************************************************************************)
EXTENDS Integers, Sequences, FiniteSets, TLC

\* ------------------------------------------------------------- bounds ---
MaxDocs == 2      \* longest document list of a request
MaxPages == 2     \* most pages of one source document

\* The `order` values a descriptor may carry (ties and inversions both occur).
OrderValues == {1, 2}

\* ------------------------------------------------------ implementations ---
PacketWorker == "unnamed/part_006"
InlineWorker == "worker/src/index.ts"
Workers == {PacketWorker, InlineWorker}

\* --------------------------------------------------------------- header ---
FieldNames == <<"projectName", "submittedTo", "preparedBy", "product", "date">>
FieldSet == {FieldNames[i] : i \in 1..Len(FieldNames)}

Absent == "<undefined>"      \* the property is missing from projectData

FullHeader == [f \in FieldSet |-> "Acme"]

\* The headers a request is drawn from: complete, and one field missing or
\* empty (projectName, which also names the file, and one display-only field).
HeaderCases ==
    { FullHeader,
      [FullHeader EXCEPT !["projectName"] = Absent],
      [FullHeader EXCEPT !["projectName"] = ""],
      [FullHeader EXCEPT !["date"] = Absent] }

\* JavaScript truthiness of a header value (value || ..., if (value)).
Truthy(v) == v # Absent /\ v # ""

\* ---------------------------------------------------------- descriptors ---
\* A descriptor is [id, order, type]; its name and url are determined by id.
\* Identifiers are unique within a request: the id is the list position.
DocLists ==
    UNION { { [i \in 1..n |-> [id |-> i, order |-> o[i], type |-> "TDS"]] :
                o \in [1..n -> OrderValues] }
            : n \in 0..MaxDocs }

\* What document.type is: a type code, or undefined in a descriptor whose
\* JSON has no type property.
DocTypes == {"TDS", Absent}

\* Descriptor lists already in ascending order, with or without a type.
DescriptorLists ==
    UNION { { [i \in 1..n |-> [id |-> i, order |-> i, type |-> t[i]]] :
                t \in [1..n -> DocTypes] }
            : n \in 0..MaxDocs }

\* The shapes of a request body.
\*   "ok"       - projectData and documents are present
\*   "badjson"  - request.json() rejects
\*   "noheader" - projectData is missing
\*   "nodocs"   - documents is missing
Shapes == {"ok", "badjson", "noheader", "nodocs"}

\* ---------------------------------------------------------------- pages ---
\* A page of the output: kind, the descriptor it belongs to (0: none), the
\* source page it copies or reports (0: none), the "Page N" label drawn by
\* the divider builder (0: none), the message of an error page, the lines of
\* a cover page and the page-number stamps drawn by addPageNumbers.
Page(kind, doc, src, label, msg, lines) ==
    [kind |-> kind, doc |-> doc, src |-> src, label |-> label,
     msg |-> msg, lines |-> lines, stamps |-> <<>>]

\* The lines of the cover: PacketWorker draws a field only if it is truthy,
\* InlineWorker draws every field, 'N/A' for a falsy one.
RECURSIVE CoverLines(_, _, _)
CoverLines(w, h, i) ==
    IF i > Len(FieldNames) THEN <<>>
    ELSE LET f == FieldNames[i]
             rest == CoverLines(w, h, i + 1)
         IN  IF w = PacketWorker
             THEN IF Truthy(h[f]) THEN <<[field |-> f, value |-> h[f]]>> \o rest
                  ELSE rest
             ELSE <<[field |-> f, value |-> IF Truthy(h[f]) THEN h[f] ELSE "N/A"]>>
                  \o rest

CoverPage(w, h) == Page("cover", 0, 0, 0, "", CoverLines(w, h, 1))

\* The page pdf.addPage() leaves behind when addCoverPage throws on a
\* missing projectData before drawing any field.
BlankCoverPage == Page("cover", 0, 0, 0, "", <<>>)

DividerPage(doc, pageNumber) == Page("divider", doc.id, 0, pageNumber, "", <<>>)

\* The divider builder of PacketWorker draws document.type.toUpperCase(),
\* which throws on an undefined type; InlineWorker draws `Type: ${type}`.
DividerThrows(w, doc) == w = PacketWorker /\ doc.type = Absent

\* The page pdf.addPage() leaves behind when the divider builder throws
\* before it has drawn anything.
BlankDividerPage(doc) == Page("divider", doc.id, 0, 0, "", <<>>)

ContentPage(doc, k) == Page("content", doc.id, k, 0, "", <<>>)

\* The error page of a whole document (src = 0) or of one page (src = k).
ErrorPage(doc, k, msg) == Page("error", doc.id, k, 0, msg, <<>>)

\* AddPage with the page inserted at the front (insertPage(0, ...)).
AddPageInFront(pdf, page) == <<page>> \o pdf

\* pdf.addPage(...) / finalPdf.addPage(copiedPage): the page is appended.
AddPage(pdf, page) == Append(pdf, page)

\* The message the document-level handler draws for a failure cause.
DocErrorMessage(w, cause) ==
    IF w = PacketWorker
    THEN CASE cause = "status"  -> "Failed to fetch PDF: <status>"
           [] cause = "neterr"  -> "<transport error message>"
           [] cause = "divider" -> "<type error message>"
           [] OTHER             -> "<parse error message>"
    ELSE IF cause \in {"status", "neterr"}
         THEN "Document could not be loaded"
         ELSE "Document processing failed"

\* The message the page-level handler draws.
PageErrorMessage(w) ==
    IF w = PacketWorker THEN "<copy error message>"
    ELSE "Page <k> could not be processed"


\* AddPageNumbers run a second time over the same output.
AddPageNumbersTwice(w, pdf) ==
    [p \in 1..Len(pdf) |->
        IF w = PacketWorker /\ p = 1 THEN pdf[p]
        ELSE [pdf[p] EXCEPT !.stamps = Append(Append(@, p), p)]]

\* addPageNumbers: PacketWorker stamps i + 1 on every page but index 0,
\* InlineWorker stamps index + 1 on every page.
AddPageNumbers(w, pdf) ==
    [p \in 1..Len(pdf) |->
        IF w = PacketWorker /\ p = 1 THEN pdf[p]
        ELSE [pdf[p] EXCEPT !.stamps = Append(@, p)]]

\* ------------------------------------------------------------- sorting ---
\* documents.sort((a, b) => a.order - b.order): Array.prototype.sort is
\* stable, so a descriptor lands after every earlier one of order <= its own.
RECURSIVE InsertByOrder(_, _)
InsertByOrder(sorted, d) ==
    IF sorted = <<>> THEN <<d>>
    ELSE IF Head(sorted).order - d.order <= 0
         THEN <<Head(sorted)>> \o InsertByOrder(Tail(sorted), d)
         ELSE <<d>> \o sorted

RECURSIVE SortFrom(_, _, _)
SortFrom(docs, i, acc) ==
    IF i > Len(docs) THEN acc
    ELSE SortFrom(docs, i + 1, InsertByOrder(acc, docs[i]))

SortByOrder(docs) == SortFrom(docs, 1, <<>>)

\* ------------------------------------------------------ recovery policy ---
\* DocumentFailed with the error page added by the inner and again by an
\* outer handler.
DocumentFailedTwice(w, pdf, doc, cause) ==
    AddPage(AddPage(pdf, ErrorPage(doc, 0, DocErrorMessage(w, cause))),
            ErrorPage(doc, 0, DocErrorMessage(w, cause)))

\* The document-level handler: one error page for the whole document.
\* (PacketWorker: catch (docError); InlineWorker: the else branch of
\* if (pdfBytes) and catch (docError).)
DocumentFailed(w, pdf, doc, cause) ==
    AddPage(pdf, ErrorPage(doc, 0, DocErrorMessage(w, cause)))

\* PageFailed with the failure only logged: no page is added.
PageFailedSilently(w, pdf, doc, k) == pdf

\* The page-level handler: one error page for source page k.
PageFailed(w, pdf, doc, k) ==
    AddPage(pdf, ErrorPage(doc, k, PageErrorMessage(w)))

\* The page copied into the output: copyPages + addPage.
PageCopied(pdf, doc, k) == AddPage(pdf, ContentPage(doc, k))

\* NextPageIndex with a failed copy ending the copy loop (break).
NextPageIndexBreaking(k, ok) == IF ok THEN k + 1 ELSE MaxPages + 2

\* The source page the copy loop turns to after page k (i++).
NextPageIndex(k, ok) == k + 1

\* ------------------------------------------------------------ responses ---
NoResponse ==
    [status |-> 0, contentType |-> "", keys |-> {}, pages |-> <<>>, filename |-> ""]

\* ErrorResponse without the status option: the status defaults to 200.
ErrorResponseDefaultStatus(w) ==
    [status |-> 200, contentType |-> "application/json",
     keys |-> IF w = PacketWorker THEN {"error", "message"} ELSE {"error", "details"},
     pages |-> <<>>, filename |-> ""]

\* The catch of the handler: status 500 and a JSON object.
ErrorResponse(w) ==
    [status |-> 500, contentType |-> "application/json",
     keys |-> IF w = PacketWorker THEN {"error", "message"} ELSE {"error", "details"},
     pages |-> <<>>, filename |-> ""]

\* The success response: the saved document and the suggested file name.
OkResponse(w, h, pdf) ==
    [status |-> 200, contentType |-> "application/pdf", keys |-> {}, pages |-> pdf,
     filename |->
        IF w = PacketWorker
        THEN (IF Truthy(h["projectName"]) THEN "Acme.pdf" ELSE "packet.pdf")
        ELSE (IF h["projectName"] = "" THEN "_Packet.pdf" ELSE "Acme_Packet.pdf")]

\* new Response(...) of InlineWorker evaluates projectData.projectName.replace,
\* which throws a TypeError when projectName is missing.
ResponseThrows(w, h) == w = InlineWorker /\ h["projectName"] = Absent

\* ----------------------------------------------------------------- state ---
VARIABLES
    worker,             \* the implementation serving the request
    shape,              \* the shape of the request body
    header,             \* projectData
    reqDocs,            \* the document list as the caller sent it
    documents,          \* the parsed documents array (sorted in place)
    finalPdf,           \* the output page sequence
    currentPageNumber,  \* the running page counter
    di,                 \* position of the for-of loop in documents
    pdfBytes,           \* the fetched body of the current document
    sourcePages,        \* page count of the loaded source document
    pi,                 \* source page the copy loop is at (i + 1)
    pc,                 \* position of the handler
    response,           \* the response returned
    paginated,          \* number of calls of addPageNumbers so far
    log,                \* per descriptor id: what happened to it
    parked,             \* the frame of a second invocation that is suspended
    location,           \* fetchPDF: the url it is given
    fullUrl,            \* fetchPDF: the address it fetches
    errorMessage,       \* addErrorPage: the message it is given
    truncatedError,     \* addErrorPage: the cause text it draws
    projectName,        \* the response headers: the project name of the request
    filename,           \* the response headers: the suggested file name
    ordering,           \* the client: which DocumentOrdering component it has
    selectedDocuments,  \* the client: AppState.selectedDocuments
    currentStep,        \* the client: AppState.currentStep
    formComplete,       \* the client: step 1 of the wizard is complete
    isGenerating,       \* the client: AppState.isGenerating
    generationSteps,    \* the client: status of each progress step
    closureSteps,       \* the client: generationSteps as generatePacket captured it
    genPc,              \* the client: position of generatePacket
    sent,               \* the client: the documents of the requests sent
    service,            \* the client: which PDFService it has
    generatedPacket,    \* the client: a generated packet is held for download
    thrown,             \* the client: an event handler has thrown
    lastOp              \* the client: the last operation and its arguments

vars == <<worker, shape, header, reqDocs, documents, finalPdf, currentPageNumber,
          di, pdfBytes, sourcePages, pi, pc, response, paginated, log,
          parked, location, fullUrl, errorMessage, truncatedError,
          projectName, filename, ordering, selectedDocuments, currentStep,
          formComplete, isGenerating, generationSteps, closureSteps, genPc, sent,
          service, generatedPacket, thrown, lastOp>>

\* The state of the response-header computation.
naming == <<projectName, filename>>

\* The state of the browser client.
client == <<ordering, selectedDocuments, currentStep, formComplete, isGenerating,
            generationSteps, closureSteps, genPc, sent, service, generatedPacket,
            thrown, lastOp>>

\* What lies outside the invocation that is running.
outside == <<parked, location, fullUrl, errorMessage, truncatedError, naming, client>>

\* No file name is being computed.
NamingIdle ==
    /\ projectName = <<>>
    /\ filename = <<>>

\* No client page is open.
ClientIdle ==
    /\ ordering = "none"
    /\ selectedDocuments = <<>>
    /\ currentStep = 0
    /\ formComplete = FALSE
    /\ isGenerating = FALSE
    /\ generationSteps = <<>>
    /\ closureSteps = <<>>
    /\ genPc = "none"
    /\ sent = <<>>
    /\ service = "none"
    /\ generatedPacket = FALSE
    /\ thrown = FALSE
    /\ lastOp = [op |-> "none", a |-> 0, b |-> 0]

input == <<worker, shape, header, reqDocs>>

NoHeader == [f \in FieldSet |-> Absent]

PendingLog ==
    [fetch |-> "pending", attempts |-> 0, result |-> "none",
     load |-> "none", pages |-> 0, failed |-> {}]

\* No second invocation.
NoFrame == [pc |-> "done", response |-> NoResponse]

\* The locals of an invocation that has just been entered.
Entered ==
    /\ documents = reqDocs
    /\ finalPdf = <<>>
    /\ currentPageNumber = 0
    /\ di = 1
    /\ pdfBytes = "none"
    /\ sourcePages = 0
    /\ pi = 0
    /\ response = NoResponse
    /\ paginated = 0
    /\ log = [i \in 1..Len(reqDocs) |-> PendingLog]

\* Nothing but the one invocation is going on.
Alone ==
    /\ parked = NoFrame
    /\ location = <<>>
    /\ fullUrl = <<>>
    /\ errorMessage = <<>>
    /\ truncatedError = <<>>
    /\ NamingIdle
    /\ ClientIdle

\* One POST /generate-packet.  The headers with a field missing come with
\* at most one descriptor.
Init ==
    /\ worker \in Workers
    /\ shape \in Shapes
    /\ header \in (IF shape \in {"ok", "nodocs"} THEN HeaderCases ELSE {NoHeader})
    /\ reqDocs \in (IF shape # "ok" THEN {<<>>}
                    ELSE IF header = FullHeader THEN DocLists
                    ELSE {l \in DocLists : Len(l) <= 1})
    /\ pc = "request"
    /\ Entered
    /\ Alone

\* The descriptor the loop is at.
Doc == documents[di]

\* Abort answering with the pages built so far.
AbortWithPartialOutput ==
    /\ response' = [ErrorResponse(worker) EXCEPT !.pages = finalPdf]
    /\ pc' = "done"

\* The handler's catch: the run ends with the error response.
Abort ==
    /\ response' = ErrorResponse(worker)
    /\ pc' = "done"

\* NextDocument with the loop left after the current descriptor (break).
NextDocumentBreaking ==
    /\ di' = Len(documents) + 1
    /\ pdfBytes' = "none"
    /\ sourcePages' = 0
    /\ pi' = 0
    /\ pc' = "loop"

\* NextDocument with the same descriptor taken up again (a retry).
NextDocumentRepeating ==
    /\ di' = di
    /\ pdfBytes' = "none"
    /\ sourcePages' = 0
    /\ pi' = 0
    /\ pc' = "loop"

\* The end of one turn of the for-of loop: on to the next descriptor.
NextDocument ==
    /\ di' = di + 1
    /\ pdfBytes' = "none"
    /\ sourcePages' = 0
    /\ pi' = 0
    /\ pc' = "loop"

\* await request.json() and the destructuring; InlineWorker then logs
\* projectData.projectName and documents.length.
ParseRequest ==
    /\ pc = "request"
    /\ IF shape = "badjson" \/ (worker = InlineWorker /\ shape # "ok")
       THEN Abort
       ELSE pc' = "cover" /\ UNCHANGED response
    /\ UNCHANGED <<outside, input, documents, finalPdf, currentPageNumber, di, pdfBytes,
                   sourcePages, pi, paginated, log>>

\* PDFDocument.create(), addCoverPage, let currentPageNumber = 2.
AddCoverPage ==
    /\ pc = "cover"
    /\ IF shape = "noheader"
       THEN /\ finalPdf' = AddPage(finalPdf, BlankCoverPage)
            /\ Abort
            /\ UNCHANGED currentPageNumber
       ELSE /\ finalPdf' = AddPage(finalPdf, CoverPage(worker, header))
            /\ currentPageNumber' = 2
            /\ pc' = IF worker = PacketWorker THEN "sort" ELSE "loop"
            /\ UNCHANGED response
    /\ UNCHANGED <<outside, input, documents, di, pdfBytes, sourcePages, pi,
                   paginated, log>>

\* const sortedDocuments = documents.sort(...): sorts the array in place.
SortDocuments ==
    /\ pc = "sort"
    /\ IF shape = "nodocs"
       THEN Abort /\ UNCHANGED documents
       ELSE /\ documents' = SortByOrder(documents)
            /\ pc' = "loop"
            /\ UNCHANGED response
    /\ UNCHANGED <<outside, input, finalPdf, currentPageNumber, di, pdfBytes, sourcePages,
                   pi, paginated, log>>

\* LoopDone with the loop bound off by one: the last descriptor is left out.
LoopDoneEarly == di >= Len(documents)

\* The for-of loop over the descriptors has no descriptor left.
LoopDone == di > Len(documents)

\* Loop head: addDividerPage(finalPdf, doc, currentPageNumber); currentPageNumber++.
BeginDocument ==
    /\ pc = "loop"
    /\ ~LoopDone
    /\ IF DividerThrows(worker, Doc)
       THEN /\ finalPdf' = DocumentFailed(worker,
                                AddPage(finalPdf, BlankDividerPage(Doc)), Doc, "divider")
            /\ currentPageNumber' = currentPageNumber + 1
            /\ NextDocument
       ELSE /\ finalPdf' = AddPage(finalPdf, DividerPage(Doc, currentPageNumber))
            /\ currentPageNumber' = currentPageNumber + 1
            /\ pc' = "fetch"
            /\ UNCHANGED <<di, pdfBytes, sourcePages, pi>>
    /\ UNCHANGED <<outside, input, documents, response, paginated, log>>

\* What the retrieval of a source can come to: a transport error, a
\* non-success status, a success with an empty body, with the bytes of a
\* document, or with the bytes of a document that declares encryption and
\* is otherwise parseable.
FetchOutcomes == {"neterr", "status", "empty", "bytes", "encrypted"}

\* What the fetch step hands to the loop: fetchPDF of InlineWorker returns
\* null on a transport error or non-success status, the inline fetch of
\* PacketWorker throws; a success hands over the body, empty or not.
FetchResult(w, outcome) ==
    IF outcome \in {"neterr", "status"}
    THEN (IF w = InlineWorker THEN "null" ELSE "throw")
    ELSE outcome

\* PDFDocument.load: PacketWorker passes { ignoreEncryption: true },
\* InlineWorker does not, and load then rejects a document that declares
\* encryption.
LoadRejectsEncrypted(w) == w = InlineWorker

\* The page counts PDFDocument.load may yield for a body (-1: it throws).
LoadOutcomes(w, bytes) ==
    CASE bytes = "empty" -> {-1}
      [] bytes = "encrypted" -> IF LoadRejectsEncrypted(w) THEN {-1} ELSE 0..MaxPages
      [] OTHER -> -1..MaxPages

\* await fetch(doc.url) / fetchPDF(doc.url).  A transport error or a
\* non-success status ends the document with one error page.
FetchSource ==
    /\ pc = "fetch"
    /\ \E outcome \in FetchOutcomes :
        /\ log' = [log EXCEPT ![Doc.id].fetch = outcome,
                               ![Doc.id].attempts = @ + 1,
                               ![Doc.id].result = FetchResult(worker, outcome)]
        /\ IF FetchResult(worker, outcome) \in {"null", "throw"}
           THEN /\ finalPdf' = DocumentFailed(worker, finalPdf, Doc, outcome)
                /\ currentPageNumber' = currentPageNumber + 1
                /\ NextDocument
           ELSE /\ pdfBytes' = FetchResult(worker, outcome)
                /\ pc' = "load"
                /\ UNCHANGED <<finalPdf, currentPageNumber, di, sourcePages, pi>>
    /\ UNCHANGED <<outside, input, documents, response, paginated>>

\* await PDFDocument.load(pdfBytes): throws, or yields n >= 0 pages.
LoadSource ==
    /\ pc = "load"
    /\ \E n \in LoadOutcomes(worker, pdfBytes) :
        IF n = -1
        THEN /\ log' = [log EXCEPT ![Doc.id].load = "failed"]
             /\ finalPdf' = DocumentFailed(worker, finalPdf, Doc, "load")
             /\ currentPageNumber' = currentPageNumber + 1
             /\ NextDocument
        ELSE /\ log' = [log EXCEPT ![Doc.id].load = "loaded", ![Doc.id].pages = n]
             /\ UNCHANGED <<finalPdf, currentPageNumber>>
             /\ IF n = 0
                THEN NextDocument
                ELSE /\ sourcePages' = n
                     /\ pi' = 1
                     /\ pc' = "copy"
                     /\ UNCHANGED <<di, pdfBytes>>
    /\ UNCHANGED <<outside, input, documents, response, paginated>>

\* One turn of the copy loop: copyPages + addPage, or the page-level handler.
CopyPage ==
    /\ pc = "copy"
    /\ \E ok \in BOOLEAN :
        /\ finalPdf' = IF ok THEN PageCopied(finalPdf, Doc, pi)
                       ELSE PageFailed(worker, finalPdf, Doc, pi)
        /\ log' = IF ok THEN log
                  ELSE [log EXCEPT ![Doc.id].failed = @ \cup {pi}]
        /\ currentPageNumber' = currentPageNumber + 1
        /\ IF NextPageIndex(pi, ok) > sourcePages
           THEN NextDocument
           ELSE /\ pi' = NextPageIndex(pi, ok)
                /\ UNCHANGED <<di, pdfBytes, sourcePages, pc>>
    /\ UNCHANGED <<outside, input, documents, response, paginated>>

\* After the loop: await addPageNumbers(finalPdf).
Paginate ==
    /\ pc = "loop"
    /\ LoopDone
    /\ finalPdf' = AddPageNumbers(worker, finalPdf)
    /\ paginated' = paginated + 1
    /\ pc' = "save"
    /\ UNCHANGED <<outside, input, documents, currentPageNumber, di, pdfBytes,
                   sourcePages, pi, response, log>>

\* finalPdf.save() and new Response(pdfBytes, ...).
Respond ==
    /\ pc = "save"
    /\ IF ResponseThrows(worker, header)
       THEN Abort
       ELSE /\ response' = OkResponse(worker, header, finalPdf)
            /\ pc' = "done"
    /\ UNCHANGED <<outside, input, documents, finalPdf, currentPageNumber, di, pdfBytes,
                   sourcePages, pi, paginated, log>>

Next ==
    \/ ParseRequest
    \/ AddCoverPage
    \/ SortDocuments
    \/ BeginDocument
    \/ FetchSource
    \/ LoadSource
    \/ CopyPage
    \/ Paginate
    \/ Respond

Spec == Init /\ [][Next]_vars

\* ------------------------------------------------- reading the output ---
\* A run is completed when the handler has returned the composite.
Completed == pc = "done" /\ response.status = 200

\* The composite returned by a completed run.
Composite == response.pages

DocIds == 1..Len(reqDocs)

\* The pages of the composite that belong to descriptor d, in output order.
Block(d) == SelectSeq(Composite, LAMBDA p : p.doc = d)

Kinds(pages) == [i \in 1..Len(pages) |-> pages[i].kind]

FetchFailed(d) == log[d].fetch \in {"neterr", "status"}
LoadFailed(d) == log[d].load = "failed"
Loaded(d) == log[d].load = "loaded"

\* Pages of document d that were successfully copied.
PagesCopied(d) == IF Loaded(d) THEN log[d].pages - Cardinality(log[d].failed) ELSE 0

Max(a, b) == IF a >= b THEN a ELSE b

\* f[1] + ... + f[n]
RECURSIVE SumTo(_, _)
SumTo(f, n) == IF n = 0 THEN 0 ELSE f[n] + SumTo(f, n - 1)

\* ------------------------------------------------------------------ C1 ---
\* C1 as stated: a completed run over a non-empty list returns exactly
\* 1 + sum over documents of (1 + max(1, pages successfully copied)) pages.
C1_CountByCopiedPages ==
    (Completed /\ reqDocs # <<>>) =>
        Len(Composite) =
            1 + SumTo([d \in DocIds |-> 1 + Max(1, PagesCopied(d))], Len(reqDocs))

\* The units a document contributes after its divider: one error page when
\* its fetch or load failed, otherwise one entry per page of the source.
Units(d) == IF Loaded(d) THEN log[d].pages ELSE 1

\* C1 amended: a completed run returns exactly 1 + sum over documents of
\* (1 + u_i) pages, where u_i = 1 when the fetch or load of document i
\* failed and otherwise u_i is the number of pages of the loaded source
\* (each gives one copied page or one error page).
C1_PageCount ==
    Completed =>
        Len(Composite) = 1 + SumTo([d \in DocIds |-> 1 + Units(d)], Len(reqDocs))

\* A completed run in which a page copy failed next to a copied page, and
\* another document failed as a whole.
C1_Witness ==
    /\ Completed
    /\ Len(reqDocs) = 2
    /\ \E d \in DocIds : Loaded(d) /\ log[d].pages = 2 /\ Cardinality(log[d].failed) = 1
    /\ \E d \in DocIds : FetchFailed(d)

\* ------------------------------------------------------------------ C2 ---
\* Descriptor a is merged before descriptor b in the stable ascending order:
\* smaller order first, equal orders in request list order (id = position).
MergesBefore(a, b) ==
    \/ reqDocs[a].order < reqDocs[b].order
    \/ reqDocs[a].order = reqDocs[b].order /\ a < b

Dividers == SelectSeq(Composite, LAMBDA p : p.kind = "divider")

\* C2: the documents are merged in ascending order of `order`, whatever
\* their order in the request's list; equal orders keep list order.
C2_MergedInAscendingOrder ==
    Completed =>
        /\ Len(Dividers) = Len(reqDocs)
        /\ \A i, j \in 1..Len(Dividers) :
              i < j => MergesBefore(Dividers[i].doc, Dividers[j].doc)

\* ------------------------------------------------------------------ C3 ---
\* C3: the page sequence is one cover at position 1, then per descriptor in
\* merge order one contiguous block that starts with its divider and holds
\* only its own content and error pages.  Stated of the output under
\* construction at every step, so also of the composite returned.
C3_CoverThenBlocks ==
    LET divs == SelectSeq(finalPdf, LAMBDA p : p.kind = "divider")
    IN  /\ \A p \in 1..Len(finalPdf) : (finalPdf[p].kind = "cover") <=> (p = 1)
        /\ \A p \in 2..Len(finalPdf) :
              IF finalPdf[p].kind = "divider"
              THEN \A q \in 1..(p - 1) : finalPdf[q].doc # finalPdf[p].doc
              ELSE /\ finalPdf[p].kind \in {"content", "error"}
                   /\ finalPdf[p - 1].kind # "cover"
                   /\ finalPdf[p - 1].doc = finalPdf[p].doc
        /\ Len(divs) <= Len(documents)
        /\ \A i \in 1..Len(divs) : divs[i].doc = documents[i].id
        /\ Completed => Composite = finalPdf /\ Len(divs) = Len(documents)

\* A returned composite of two blocks, one of them with a copied page
\* followed by an error page.
C3_Witness ==
    /\ Completed
    /\ Len(reqDocs) = 2
    /\ \E p \in 2..Len(Composite) :
          /\ Composite[p].kind = "error"
          /\ Composite[p - 1].kind = "content"
          /\ p < Len(Composite)

\* ------------------------------------------------------------------ C4 ---
\* The block a descriptor's own outcome calls for, as <<kind, source page>>.
ExpectedBlock(d) ==
    IF Loaded(d)
    THEN <<<<"divider", 0>>>> \o
         [k \in 1..log[d].pages |->
            <<IF k \in log[d].failed THEN "error" ELSE "content", k>>]
    ELSE <<<<"divider", 0>>, <<"error", 0>>>>

BlockShape(d) == [i \in 1..Len(Block(d)) |-> <<Block(d)[i].kind, Block(d)[i].src>>]

\* C4: a document whose fetch fails contributes exactly its divider and one
\* error page naming it, and every other document's block is what that
\* document's own outcomes call for (page identity; page numbers aside).
C4_FetchFailureIsolated ==
    Completed =>
        /\ \A d \in DocIds :
              FetchFailed(d) =>
                 /\ Kinds(Block(d)) = <<"divider", "error">>
                 /\ Block(d)[2].src = 0
                 /\ Block(d)[2].msg = DocErrorMessage(worker, log[d].fetch)
        /\ (\E d \in DocIds : FetchFailed(d)) =>
              \A e \in DocIds : BlockShape(e) = ExpectedBlock(e)

\* A failed fetch between two documents whose pages were copied.
C4_Witness ==
    /\ Completed
    /\ \E d \in DocIds : FetchFailed(d)
    /\ \E e \in DocIds : Loaded(e) /\ log[e].pages = 2 /\ log[e].failed = {}
    /\ Composite[2].kind = "divider" /\ Composite[3].kind = "error"

\* ------------------------------------------------------------------ C5 ---
\* C5: a document that was fetched but does not parse contributes exactly
\* its divider and one error page, and the run goes on to every later
\* descriptor.
C5_LoadFailureIsolated ==
    Completed =>
        \A i \in 1..Len(documents) :
            LoadFailed(documents[i].id) =>
               /\ Kinds(Block(documents[i].id)) = <<"divider", "error">>
               /\ log[documents[i].id].fetch \in {"empty", "bytes", "encrypted"}
               /\ \A j \in (i + 1)..Len(documents) :
                     /\ log[documents[j].id].fetch # "pending"
                     /\ Len(Block(documents[j].id)) >= 1
                     /\ Block(documents[j].id)[1].kind = "divider"

\* A load failure on the first of two descriptors, the second one merged.
C5_Witness ==
    /\ Completed
    /\ Len(documents) = 2
    /\ LoadFailed(documents[1].id)
    /\ log[documents[1].id].fetch = "bytes"
    /\ Loaded(documents[2].id) /\ log[documents[2].id].pages >= 1

\* ------------------------------------------------------------------ C6 ---
\* C6: a loaded document of n pages with failing pages F contributes its
\* divider and then exactly n entries in source order, entry k the copied
\* page k, or for k in F one error page about page k of that document.
C6_PageFailureIsolated ==
    Completed =>
        \A d \in DocIds :
            Loaded(d) =>
               /\ Len(Block(d)) = 1 + log[d].pages
               /\ Block(d)[1].kind = "divider"
               /\ \A k \in 1..log[d].pages :
                     /\ Block(d)[k + 1].src = k
                     /\ Block(d)[k + 1].kind =
                           IF k \in log[d].failed THEN "error" ELSE "content"

\* The first page of a two-page document failed and the second was copied.
C6_Witness ==
    /\ Completed
    /\ \E d \in DocIds :
          /\ Loaded(d) /\ log[d].pages = 2 /\ log[d].failed = {1}
          /\ Kinds(Block(d)) = <<"divider", "error", "content">>

\* ------------------------------------------------------------------ C7 ---
\* C7: in every completed run every descriptor's block holds exactly one
\* divider and at least one further page.
C7_EveryDocumentLeavesPages ==
    Completed =>
        \A d \in DocIds :
            /\ Len(SelectSeq(Block(d), LAMBDA p : p.kind = "divider")) = 1
            /\ Len(Block(d)) >= 2

\* ------------------------------------------------------------------ C8 ---
\* C8: after pagination every page but the first carries the stamp of its
\* 1-based position, and the cover carries none.
C8_StampedExceptCover ==
    Completed =>
        /\ Composite[1].stamps = <<>>
        /\ \A p \in 2..Len(Composite) : Composite[p].stamps = <<p>>

\* ------------------------------------------------------------------ C9 ---
\* C9: a request whose body parses into a header and a document list ends
\* with the success response carrying the composite, whatever the outcomes
\* of the fetches, loads and page copies.
C9_ParsedRequestSucceeds ==
    (pc = "done" /\ shape = "ok") =>
        /\ response.status = 200
        /\ response.pages = finalPdf

StageSuccession ==
    {<<"request", "cover">>, <<"request", "done">>,
     <<"cover", "sort">>, <<"cover", "loop">>, <<"cover", "done">>,
     <<"sort", "loop">>, <<"sort", "done">>,
     <<"loop", "fetch">>, <<"loop", "save">>,
     <<"fetch", "load">>, <<"fetch", "loop">>,
     <<"load", "copy">>, <<"load", "loop">>,
     <<"copy", "copy">>, <<"copy", "loop">>,
     <<"save", "done">>}

\* The sub-loop of the descriptor at position j of the list has been entered.
SubLoopEntered(j) == log[documents[j].id].fetch # "pending"

DividersOf(pdf, d) == SelectSeq(pdf, LAMBDA p : p.kind = "divider" /\ p.doc = d)

\* The pages a step adds to the output.
Added == SubSeq(finalPdf', Len(finalPdf) + 1, Len(finalPdf'))

C11_Step ==
    /\ <<pc, pc'>> \in StageSuccession
    \* the cover comes before any divider
    /\ (\E i \in 1..Len(finalPdf') : finalPdf'[i].kind = "divider") =>
          finalPdf'[1].kind = "cover"
    \* a descriptor's divider is emitted, once, before its fetch is attempted
    /\ pc' = "fetch" =>
          /\ Kinds(Added) = <<"divider">>
          /\ Added[1].doc = Doc.id
          /\ Len(DividersOf(finalPdf', Doc.id)) = 1
          /\ log[Doc.id].attempts = 0
    \* a load starts only after the fetch has succeeded
    /\ pc' = "load" =>
          /\ pc = "fetch"
          /\ log'[Doc.id].result \in {"empty", "bytes", "encrypted"}
    /\ pc' = "copy" => log'[Doc.id].load = "loaded"
    \* pages are added for the descriptor the loop is at only, after every
    \* earlier descriptor's sub-loop and before any later one's
    /\ (pc \in {"loop", "fetch", "load", "copy"} /\ Len(Added) > 0) =>
          /\ \A i \in 1..Len(Added) : Added[i].doc = Doc.id
          /\ \A j \in 1..(di - 1) : SubLoopEntered(j)
          /\ \A j \in (di + 1)..Len(documents) :
                /\ ~SubLoopEntered(j)
                /\ Len(SelectSeq(finalPdf', LAMBDA p : p.doc = documents[j].id)) = 0
    \* pagination starts only after the last descriptor's sub-loop, and
    \* every descriptor has had exactly one sub-loop
    /\ pc' = "save" =>
          \A j \in 1..Len(documents) :
              /\ log[documents[j].id].attempts = 1
              /\ Len(DividersOf(finalPdf, documents[j].id)) = 1
    /\ (pc' = "done" /\ response'.status = 200) => pc = "save"

\* C11: a run passes its stages in order: cover before any divider, each
\* descriptor's divider before its fetch, load only after a successful
\* fetch, pages of one descriptor only after the sub-loops of the earlier
\* ones, pagination only after the last sub-loop, one sub-loop per
\* descriptor.
C11_StagesInOrder == [][C11_Step]_vars

\* About to paginate after two sub-loops, one that copied pages and one
\* whose fetch failed.
C11_Witness ==
    /\ pc = "save"
    /\ Len(documents) = 2
    /\ \E d \in DocIds : Loaded(d) /\ log[d].pages = 2
    /\ \E d \in DocIds : FetchFailed(d)

\* ----------------------------------------------------------------- C12 ---
\* The page-number marks on a page: the stamps of addPageNumbers, and on a
\* divider the "Page N" that addDividerPage draws.
Marks(page) == Len(page.stamps) + (IF page.kind = "divider" THEN 1 ELSE 0)

\* addPageNumbers is called at most once, and only after every descriptor
\* has been through its sub-loop.
PaginatedOnceAtEnd ==
    /\ paginated <= 1
    /\ paginated = 1 =>
          /\ pc \in {"save", "done"}
          /\ \A d \in DocIds : log[d].attempts = 1
    /\ Completed => paginated = 1

FallbackLines(h) ==
    [i \in 1..Len(FieldNames) |->
        [field |-> FieldNames[i],
         value |-> IF h[FieldNames[i]] \in {Absent, ""} THEN "N/A"
                   ELSE h[FieldNames[i]]]]

\* C13: the cover renders all five header fields in fixed order, a missing
\* or empty field as 'N/A', never omitted.
C13_CoverRendersAllFields ==
    (shape \in {"ok", "nodocs"} /\ Len(finalPdf) >= 1) =>
        /\ finalPdf[1].kind = "cover"
        /\ finalPdf[1].lines = FallbackLines(header)

\* ----------------------------------------------------------------- C14 ---
\* C14: a source that declares encryption and is otherwise parseable is
\* loaded and its pages are merged; it is never replaced by the
\* document-level error page.
C14_EncryptedSourceMerged ==
    \A d \in DocIds :
        log[d].fetch = "encrypted" =>
            /\ log[d].load # "failed"
            /\ Completed => BlockShape(d) = ExpectedBlock(d) /\ Loaded(d)

\* ----------------------------------------------------------------- C15 ---
\* C15: the fetch step hands over null for a non-success status, a
\* transport error and an empty body, never throws, and hands over bytes
\* only for a success with a non-empty body.
C15_FetcherReportsNull ==
    \A d \in DocIds :
        log[d].attempts >= 1 =>
            log[d].result = IF log[d].fetch \in {"bytes", "encrypted"}
                            THEN log[d].fetch
                            ELSE "null"

\* ----------------------------------------------------------------- C16 ---
\* C16: the source of a descriptor is fetched at most once in a run, and
\* exactly once in a completed run: a failed attempt is not repeated.
C16_FetchedAtMostOnce ==
    \A d \in DocIds :
        /\ log[d].attempts <= 1
        /\ log[d].attempts = 0 <=> log[d].fetch = "pending"
        /\ Completed => log[d].attempts = 1

\* A completed run whose first descriptor failed to fetch and whose second
\* was fetched and merged after it.
C16_Witness ==
    /\ Completed
    /\ Len(documents) = 2
    /\ FetchFailed(documents[1].id)
    /\ Loaded(documents[2].id)
    /\ \A d \in DocIds : log[d].attempts = 1

\* ------------------------------------------------- the fetched address ---
\* A url is a sequence of symbols: the letters "http", another letter, the
\* colon, the slash, and a space (a character that has to be escaped).
MaxLocationLength == 4

UrlSymbols == {"http", "x", ":", "/", " "}
UrlLetters == {"http", "x"}

\* The urls of descriptors: not empty.
Locations == UNION {[1..n -> UrlSymbols] : n \in 1..MaxLocationLength}

\* url.startsWith(symbol)
StartsWith(url, symbol) == Len(url) >= 1 /\ url[1] = symbol

\* url.substring(1) of a url that starts with the one-character symbol '/'
Substring1(url) == SubSeq(url, 2, Len(url))

\* encodeURIComponent: letters stay, every other character is escaped.
Escaped(symbol) ==
    CASE symbol = ":" -> "%3A"
      [] symbol = "/" -> "%2F"
      [] symbol = " " -> "%20"
      [] OTHER -> symbol

EncodeURIComponent(path) == [i \in 1..Len(path) |-> Escaped(path[i])]

\* .replace(/%2F/g, '/')
ReplaceEscapedSlashes(path) ==
    [i \in 1..Len(path) |-> IF path[i] = "%2F" THEN "/" ELSE path[i]]

BaseUrl == "https://raw.githubusercontent.com/karthikeyanasha24/pdf-packet-4/main/public/"

\* The address the fetch is issued for: PacketWorker fetches doc.url as it
\* is, InlineWorker's fetchPDF rewrites a url that does not start with
\* 'http'.
FetchAddress(w, url) ==
    IF w = PacketWorker \/ StartsWith(url, "http") THEN url
    ELSE LET cleanPath == IF StartsWith(url, "/") THEN Substring1(url) ELSE url
             encodedPath == ReplaceEscapedSlashes(EncodeURIComponent(cleanPath))
         IN  <<BaseUrl>> \o encodedPath

\* The first lines of fetchPDF, up to the fetch.
ResolveUrl ==
    /\ pc = "fetchPDF"
    /\ fullUrl' = FetchAddress(worker, location)
    /\ pc' = "fetching"
    /\ UNCHANGED <<input, documents, finalPdf, currentPageNumber, di, pdfBytes,
                   sourcePages, pi, response, paginated, log, parked, location,
                   errorMessage, truncatedError, naming, client>>

InitResolve ==
    /\ worker \in Workers
    /\ shape = "ok"
    /\ header = FullHeader
    /\ reqDocs = <<>>
    /\ pc = "fetchPDF"
    /\ Entered
    /\ parked = NoFrame
    /\ location \in Locations
    /\ fullUrl = <<>>
    /\ errorMessage = <<>>
    /\ truncatedError = <<>>
    /\ NamingIdle
    /\ ClientIdle

SpecResolve == InitResolve /\ [][ResolveUrl]_vars

\* ----------------------------------------------------------------- C17 ---
\* A url has an absolute-URL scheme when it begins with letters followed by
\* a colon.
HasScheme(url) ==
    \E k \in 1..(Len(url) - 1) :
        /\ url[k + 1] = ":"
        /\ \A i \in 1..k : url[i] \in UrlLetters

\* Every path segment escaped on its own, the separators kept.
EncodeSegments(path) ==
    [i \in 1..Len(path) |-> IF path[i] = "/" THEN "/" ELSE Escaped(path[i])]

\* C17: the address fetched is the location itself exactly when it has an
\* absolute-URL scheme, and otherwise the base followed by the location
\* less one leading '/', each segment escaped and the '/' between kept.
C17_AddressResolved ==
    pc = "fetching" =>
        fullUrl = IF HasScheme(location) THEN location
                  ELSE <<BaseUrl>> \o
                       EncodeSegments(IF StartsWith(location, "/")
                                      THEN Substring1(location) ELSE location)

\* ------------------------------------------------ the error page cause ---
MaxMessageLength == 85

\* const maxLength = 80
MaxLength == 80

\* A message of n characters, character i written i.
Text(n) == [i \in 1..n |-> i]

\* '...', its characters written 0.
Ellipsis == <<0, 0, 0>>

\* The messages addErrorPage is given: PacketWorker passes the message of
\* whatever was thrown, InlineWorker one of 'Document could not be loaded',
\* 'Document processing failed' and 'Page <k> could not be processed'.
ErrorMessages(w) ==
    IF w = PacketWorker THEN {Text(n) : n \in 0..MaxMessageLength}
    ELSE {Text(28), Text(26), Text(29)}

\* TruncatedError cutting a message of exactly maxLength characters too.
TruncatedErrorInclusive(w, message) ==
    IF w = PacketWorker /\ Len(message) >= MaxLength
    THEN SubSeq(message, 1, MaxLength) \o Ellipsis
    ELSE message

\* The cause addErrorPage draws after 'Error: ': PacketWorker cuts it to
\* maxLength characters and '...', InlineWorker draws it as it is.
TruncatedError(w, message) ==
    IF w = PacketWorker /\ Len(message) > MaxLength
    THEN SubSeq(message, 1, MaxLength) \o Ellipsis
    ELSE message

DrawError ==
    /\ pc = "addErrorPage"
    /\ truncatedError' = TruncatedError(worker, errorMessage)
    /\ pc' = "drawn"
    /\ UNCHANGED <<input, documents, finalPdf, currentPageNumber, di, pdfBytes,
                   sourcePages, pi, response, paginated, log, parked, location,
                   fullUrl, errorMessage, naming, client>>

InitErrorPage ==
    /\ worker \in Workers
    /\ shape = "ok"
    /\ header = FullHeader
    /\ reqDocs = <<>>
    /\ pc = "addErrorPage"
    /\ Entered
    /\ parked = NoFrame
    /\ location = <<>>
    /\ fullUrl = <<>>
    /\ errorMessage \in ErrorMessages(worker)
    /\ truncatedError = <<>>
    /\ NamingIdle
    /\ ClientIdle

SpecErrorPage == InitErrorPage /\ [][DrawError]_vars

\* ----------------------------------------------------------------- C18 ---
\* C18: the cause drawn on an error page is the message itself when it has
\* at most 80 characters, else its first 80 characters and '...'; it never
\* has more than 83 characters.
C18_CauseTruncated ==
    pc = "drawn" =>
        /\ truncatedError = IF Len(errorMessage) <= 80 THEN errorMessage
                            ELSE SubSeq(errorMessage, 1, 80) \o Ellipsis
        /\ Len(truncatedError) <= 83

\* A message of 81 characters drawn as 80 characters and the ellipsis.
C18_Witness ==
    /\ pc = "drawn"
    /\ Len(errorMessage) = 81
    /\ Len(truncatedError) = 83
    /\ SubSeq(truncatedError, 1, 80) = Text(80)

\* ------------------------------------------------ two invocations at once ---
\* The frame of the invocation that is running: its arguments and locals.
Frame ==
    [worker |-> worker, shape |-> shape, header |-> header, reqDocs |-> reqDocs,
     documents |-> documents, finalPdf |-> finalPdf,
     currentPageNumber |-> currentPageNumber, di |-> di, pdfBytes |-> pdfBytes,
     sourcePages |-> sourcePages, pi |-> pi, pc |-> pc, response |-> response,
     paginated |-> paginated, log |-> log]

\* The frame of an invocation of worker w that has just been entered with
\* a full header and the descriptor list docs.
EnteredFrame(w, docs) ==
    [worker |-> w, shape |-> "ok", header |-> FullHeader, reqDocs |-> docs,
     documents |-> docs, finalPdf |-> <<>>, currentPageNumber |-> 0, di |-> 1,
     pdfBytes |-> "none", sourcePages |-> 0, pi |-> 0, pc |-> "request",
     response |-> NoResponse, paginated |-> 0,
     log |-> [i \in 1..Len(docs) |-> PendingLog]]

\* The requests of the two invocations: at most one descriptor each.
ShortLists == {l \in DocLists : Len(l) <= 1}

\* CounterOnResume with the counter declared at module level: the resumed
\* invocation reads what the other one left.
CounterShared(frame) == currentPageNumber

\* `let currentPageNumber` is declared inside the invocation: a resumed
\* invocation finds its own counter.
CounterOnResume(frame) == frame.currentPageNumber

\* `const finalPdf` is created inside the invocation: a resumed invocation
\* finds its own output.
OutputOnResume(frame) == frame.finalPdf

\* At an await the running invocation is suspended and the other resumed.
Switch ==
    /\ parked.pc # "done"
    /\ parked' = Frame
    /\ worker' = parked.worker
    /\ shape' = parked.shape
    /\ header' = parked.header
    /\ reqDocs' = parked.reqDocs
    /\ documents' = parked.documents
    /\ finalPdf' = OutputOnResume(parked)
    /\ currentPageNumber' = CounterOnResume(parked)
    /\ di' = parked.di
    /\ pdfBytes' = parked.pdfBytes
    /\ sourcePages' = parked.sourcePages
    /\ pi' = parked.pi
    /\ pc' = parked.pc
    /\ response' = parked.response
    /\ paginated' = parked.paginated
    /\ log' = parked.log
    /\ UNCHANGED <<location, fullUrl, errorMessage, truncatedError, naming, client>>

InitTwoRuns ==
    /\ worker \in Workers
    /\ shape = "ok"
    /\ header = FullHeader
    /\ reqDocs \in ShortLists
    /\ pc = "request"
    /\ Entered
    /\ parked \in {EnteredFrame(worker, l) : l \in ShortLists}
    /\ location = <<>>
    /\ fullUrl = <<>>
    /\ errorMessage = <<>>
    /\ truncatedError = <<>>
    /\ NamingIdle
    /\ ClientIdle

NextTwoRuns ==
    \/ Next
    \/ Switch

SpecTwoRuns == InitTwoRuns /\ [][NextTwoRuns]_vars

\* ----------------------------------------------------------------- C19 ---
\* The pages a loaded source of the given outcomes adds, from page k on.
RECURSIVE CopyFrom(_, _, _, _, _)
CopyFrom(w, pdf, doc, outcome, k) ==
    IF k > outcome.pages THEN pdf
    ELSE CopyFrom(w,
                  IF k \in outcome.failed THEN PageFailed(w, pdf, doc, k)
                  ELSE PageCopied(pdf, doc, k),
                  doc, outcome, k + 1)

\* The output of a run on its own over docs from position j on, given the
\* outcomes lg of its fetches, loads and copies.
RECURSIVE AssembleFrom(_, _, _, _, _)
AssembleFrom(w, docs, lg, j, pdf) ==
    IF j > Len(docs) THEN pdf
    ELSE LET doc == docs[j]
             outcome == lg[doc.id]
             divided == AddPage(pdf, DividerPage(doc, Len(pdf) + 1))
         IN  AssembleFrom(w, docs, lg, j + 1,
                 IF outcome.load = "loaded"
                 THEN CopyFrom(w, divided, doc, outcome, 1)
                 ELSE DocumentFailed(w, divided, doc,
                          IF outcome.load = "failed" THEN "load" ELSE outcome.fetch))

\* The composite the invocation of a frame returns when it runs alone and
\* meets the same outcomes.
AloneComposite(frame) ==
    AddPageNumbers(frame.worker,
        AssembleFrom(frame.worker, frame.documents, frame.log, 1,
                     <<CoverPage(frame.worker, frame.header)>>))

\* C19: of two invocations interleaved at their awaits, each returns the
\* composite it would return alone: no page and no counter update of one
\* shows in the other.
C19_RunsIndependent ==
    /\ Completed => Composite = AloneComposite(Frame)
    /\ (parked.pc = "done" /\ parked.response.status = 200) =>
          parked.response.pages = AloneComposite(parked)

\* One invocation has returned its composite of a document while the
\* other, entered before, is suspended in the middle of its own document.
C19_Witness ==
    /\ Completed
    /\ Len(Composite) >= 3
    /\ parked.pc \in {"load", "copy"}
    /\ Len(parked.finalPdf) >= 2

\* ----------------------------------------------------------------- C20 ---
\* C20: document bytes are in a response only when every descriptor has
\* been processed and the pages numbered; a run that fails before returns
\* none of the pages it has built.
C20_NoPartialOutput ==
    /\ pc # "done" => response = NoResponse
    /\ response.pages # <<>> =>
          /\ pc = "done" /\ response.status = 200
          /\ paginated = 1
          /\ \A d \in DocIds : log[d].attempts = 1
          /\ response.pages = finalPdf
    /\ (pc = "done" /\ response.status # 200) =>
          /\ response.pages = <<>>
          /\ response.contentType = "application/json"

\* A run that failed after its output was assembled and numbered, and
\* returned none of it.
C20_Witness ==
    /\ pc = "done"
    /\ response.status = 500
    /\ shape = "ok"
    /\ Len(finalPdf) >= 3
    /\ paginated = 1
    /\ response.pages = <<>>

\* ----------------------------------------------------------------- C21 ---
\* C21: after a run the descriptor list the pipeline was handed holds the
\* same descriptors in the same order as before the run.
C21_ListUnchanged ==
    pc = "done" => documents = reqDocs

\* ------------------------------------------------ the suggested filename ---
\* A project name is a sequence of characters: a letter, a digit, the double
\* quote, the slash, a line feed and a space.
MaxNameLength == 3

NameSymbols == {"a", "7", "\"", "/", "<LF>", " "}
Alphanumeric == {"a", "7"}

ProjectNames == UNION {[1..n -> NameSymbols] : n \in 0..MaxNameLength}

\* projectName.replace(/[^a-zA-Z0-9]/g, '_')
ReplaceNonAlphanumeric(name) ==
    [i \in 1..Len(name) |-> IF name[i] \in Alphanumeric THEN name[i] ELSE "_"]

\* The file name of the Content-Disposition header: PacketWorker writes
\* `${projectName || 'packet'}.pdf`, InlineWorker
\* `${projectName.replace(/[^a-zA-Z0-9]/g, '_')}_Packet.pdf`.
Filename(w, name) ==
    IF w = PacketWorker
    THEN (IF name = <<>> THEN <<"packet">> ELSE name) \o <<".pdf">>
    ELSE ReplaceNonAlphanumeric(name) \o <<"_Packet.pdf">>

\* The worker side of the model outside a request.
ServerIdle ==
    /\ shape = "ok"
    /\ header = FullHeader
    /\ reqDocs = <<>>
    /\ Entered
    /\ parked = NoFrame
    /\ location = <<>>
    /\ fullUrl = <<>>
    /\ errorMessage = <<>>
    /\ truncatedError = <<>>

server == <<worker, shape, header, reqDocs, documents, finalPdf, currentPageNumber,
            di, pdfBytes, sourcePages, pi, pc, response, paginated, log, parked,
            location, fullUrl, errorMessage, truncatedError>>

\* new Response(pdfBytes, { headers }): the Content-Disposition header.
NameFile ==
    /\ pc = "headers"
    /\ filename' = Filename(worker, projectName)
    /\ pc' = "named"
    /\ UNCHANGED <<input, documents, finalPdf, currentPageNumber, di, pdfBytes,
                   sourcePages, pi, response, paginated, log, parked, location,
                   fullUrl, errorMessage, truncatedError, projectName, client>>

InitFilename ==
    /\ worker \in Workers
    /\ pc = "headers"
    /\ ServerIdle
    /\ projectName \in ProjectNames
    /\ filename = <<>>
    /\ ClientIdle

SpecFilename == InitFilename /\ [][NameFile]_vars

\* ----------------------------------------------------------------- C22 ---
\* C22: in the suggested file name every character of the project name
\* that is not a letter or a digit has been replaced, so that no quote,
\* separator or control character of the request is in the header.
C22_FilenameSanitized ==
    pc = "named" =>
        /\ SubSeq(filename, 1, Len(projectName)) = ReplaceNonAlphanumeric(projectName)
        /\ \A i \in 1..Len(filename) : filename[i] \notin {"\"", "/", "<LF>"}

\* ------------------------------------------------- descriptor requests ---
\* One POST /generate-packet whose descriptors are listed in ascending
\* order and may lack a type.
InitDescriptors ==
    /\ worker \in Workers
    /\ shape \in Shapes
    /\ header = (IF shape \in {"ok", "nodocs"} THEN FullHeader ELSE NoHeader)
    /\ reqDocs \in (IF shape # "ok" THEN {<<>>} ELSE DescriptorLists)
    /\ pc = "request"
    /\ Entered
    /\ Alone

SpecDescriptors == InitDescriptors /\ [][Next]_vars

\* The handler is inside the descriptor loop.
InLoop == pc \in {"loop", "fetch", "load", "copy"}

\* C23: inside the loop the counter is the number of pages in the output
\* plus one, and in a completed run every labelled divider carries as its
\* label its own position in the output, which is also its stamp.
C23_CounterTracksPosition ==
    /\ InLoop => currentPageNumber = Len(finalPdf) + 1
    /\ Completed =>
         \A p \in 1..Len(Composite) :
            (Composite[p].kind = "divider" /\ Composite[p].label # 0) =>
                /\ Composite[p].label = p
                /\ Composite[p].stamps = <<p>>

\* =============================================================== client ===
\* The wizard of the browser application: the project form (step 1), the
\* document selection (step 2), the ordering (step 3) and the generation
\* (step 4), over the AppState kept by App.

MaxCatalogue == 3     \* documents on offer in the selection step
MaxEntries == 3       \* longest selectedDocuments list

\* The ids of the documents of the catalogue.
Catalogue == 1..MaxCatalogue

\* The two ordering components: DocumentOrdering.tsx, and the
\* DocumentOrdering of PacketGeneration.tsx with the move buttons.
OrderingA == "DocumentOrdering.tsx"
OrderingB == "PacketGeneration.tsx"
Orderings == {OrderingA, OrderingB}

\* A SelectedDocument is [id, document, order, selected].
\* generateId(): an id no entry of the list carries.
GenerateId(list) ==
    CHOOSE n \in 1..(Len(list) + 1) : \A i \in 1..Len(list) : list[i].id # n

\* selectedDocuments.some(doc => doc.document.id === documentId && doc.selected)
IsDocumentSelected(list, documentId) ==
    \E i \in 1..Len(list) : list[i].document = documentId /\ list[i].selected

\* toggleDocument: a selected document is filtered out of the list, any
\* other is appended with order = selectedDocuments.length.
ToggleDocument(list, documentId) ==
    IF IsDocumentSelected(list, documentId)
    THEN SelectSeq(list, LAMBDA e : e.document # documentId)
    ELSE Append(list, [id |-> GenerateId(list), document |-> documentId,
                       order |-> Len(list), selected |-> TRUE])

\* selectedDocuments.filter(doc => doc.selected).sort((a, b) => a.order - b.order)
SortedDocuments(list) == SortByOrder(SelectSeq(list, LAMBDA e : e.selected))

\* findIndex(doc => doc.id === id), 1-based; 0 stands for -1.
FindIndex(list, id) ==
    IF \E i \in 1..Len(list) : list[i].id = id
    THEN CHOOSE i \in 1..Len(list) :
            list[i].id = id /\ \A j \in 1..(i - 1) : list[j].id # id
    ELSE 0

RemoveAt(list, i) == SubSeq(list, 1, i - 1) \o SubSeq(list, i + 1, Len(list))

InsertAt(list, i, e) == SubSeq(list, 1, i - 1) \o <<e>> \o SubSeq(list, i, Len(list))

\* arrayMove of @dnd-kit/sortable: the element at from is taken out and
\* put in at to.
ArrayMove(list, from, to) == InsertAt(RemoveAt(list, from), to, list[from])

\* The over of a drag that ends outside every drop target.
Null == 0

\* handleDragEnd reads over.id after the guard active.id !== over?.id, which
\* a null over passes.
DragThrows(active, over) == over = Null

\* The list handleDragEnd hands to onUpdateSelectedDocuments: the sorted
\* selection with active moved to over's index and order = index, followed
\* by the unselected entries.
Reordered(list, active, over) ==
    LET sorted == SortedDocuments(list)
        moved == ArrayMove(sorted, FindIndex(sorted, active), FindIndex(sorted, over))
    IN  [i \in 1..Len(moved) |-> [moved[i] EXCEPT !.order = i - 1]]
        \o SelectSeq(list, LAMBDA e : ~e.selected)

\* handleRemoveDocument of OrderingA filters the entry out, removeDocument
\* of OrderingB keeps it with selected = false.
Removed(o, list, id) ==
    IF o = OrderingA
    THEN SelectSeq(list, LAMBDA e : e.id # id)
    ELSE [i \in 1..Len(list) |->
            IF list[i].id = id THEN [list[i] EXCEPT !.selected = FALSE] ELSE list[i]]

\* Renumbered with the moved order left 0-based.
RenumberedFromZero(list, newDocuments) ==
    [i \in 1..Len(list) |->
        IF FindIndex(newDocuments, list[i].id) # 0
        THEN [list[i] EXCEPT !.order = FindIndex(newDocuments, list[i].id) - 1]
        ELSE list[i]]

\* selectedDocuments.map(...): an entry found in newDocuments gets
\* order = newIndex + 1 (newIndex 0-based), any other is kept.
Renumbered(list, newDocuments) ==
    [i \in 1..Len(list) |->
        IF FindIndex(newDocuments, list[i].id) # 0
        THEN [list[i] EXCEPT !.order = FindIndex(newDocuments, list[i].id)]
        ELSE list[i]]

\* moveDocumentUp / moveDocumentDown (by = -1 / by = 1) of OrderingB.
Moved(list, id, by) ==
    LET sorted == SortedDocuments(list)
        currentIndex == FindIndex(sorted, id)
    IN  IF (by = -1 /\ currentIndex > 1) \/ (by = 1 /\ currentIndex < Len(sorted))
        THEN Renumbered(list, ArrayMove(sorted, currentIndex, currentIndex + by))
        ELSE list

\* steps[i].isComplete(formData, selectedDocuments) of StepWizard.
IsComplete(stepId) ==
    CASE stepId = 1 -> formComplete
      [] stepId \in {2, 3} -> \E i \in 1..Len(selectedDocuments) : selectedDocuments[i].selected
      [] OTHER -> FALSE

\* canNavigateToStep with only the step just before required complete.
CanNavigateToStepFromPrevious(stepId) ==
    stepId <= currentStep \/ IsComplete(stepId - 1)

\* canNavigateToStep of StepWizard.
CanNavigateToStep(stepId) ==
    stepId <= currentStep \/ \A i \in 1..(stepId - 1) : IsComplete(i)

\* canProceed of the selection and ordering steps.
CanProceed == SortedDocuments(selectedDocuments) # <<>>

Min(a, b) == IF a <= b THEN a ELSE b

\* What lastOp records of an operation: its name and its arguments.
Op(op, a, b) == [op |-> op, a |-> a, b |-> b]

generation == <<isGenerating, generationSteps, closureSteps, genPc, sent, service,
                generatedPacket>>

\* ProjectForm's watch subscription: the form data follows every edit.
EditForm ==
    /\ currentStep = 1
    /\ \E complete \in BOOLEAN : formComplete' = complete
    /\ lastOp' = Op("edit", 0, 0)
    /\ thrown' = FALSE
    /\ UNCHANGED <<server, naming, ordering, selectedDocuments, currentStep, generation>>

\* ProjectForm's onSubmit (the button is disabled unless the form is
\* valid): onUpdateFormData(data); onNext().
SubmitForm ==
    /\ currentStep = 1
    /\ formComplete
    /\ currentStep' = Min(currentStep + 1, 4)
    /\ lastOp' = Op("submit", 0, 0)
    /\ thrown' = FALSE
    /\ UNCHANGED <<server, naming, ordering, selectedDocuments, formComplete, generation>>

\* A click on a document card of the selection step.
Toggle ==
    /\ currentStep = 2
    /\ \E d \in Catalogue :
        /\ IsDocumentSelected(selectedDocuments, d) \/ Len(selectedDocuments) < MaxEntries
        /\ selectedDocuments' = ToggleDocument(selectedDocuments, d)
        /\ lastOp' = Op("toggle", d, 0)
    /\ thrown' = FALSE
    /\ UNCHANGED <<server, naming, ordering, currentStep, formComplete, generation>>

\* The Next button of steps 2 and 3 (disabled unless canProceed): nextStep.
NextStep ==
    /\ currentStep \in {2, 3}
    /\ CanProceed
    /\ currentStep' = Min(currentStep + 1, 4)
    /\ lastOp' = Op("next", 0, 0)
    /\ thrown' = FALSE
    /\ UNCHANGED <<server, naming, ordering, selectedDocuments, formComplete, generation>>

\* The Previous button of steps 2, 3 and 4 (in step 4 disabled while
\* generating): prevStep.
PrevStep ==
    /\ currentStep \in {2, 3, 4}
    /\ ~isGenerating
    /\ currentStep' = Max(currentStep - 1, 1)
    /\ lastOp' = Op("previous", 0, 0)
    /\ thrown' = FALSE
    /\ UNCHANGED <<server, naming, ordering, selectedDocuments, formComplete, generation>>

\* A click on a step of the wizard (disabled unless canNavigate): goToStep.
StepClick ==
    /\ \E stepId \in 1..4 :
        /\ CanNavigateToStep(stepId)
        /\ currentStep' = stepId
        /\ lastOp' = Op("click", stepId, 0)
    /\ thrown' = FALSE
    /\ UNCHANGED <<server, naming, ordering, selectedDocuments, formComplete, generation>>

\* The ids of the entries the ordering step lists.
Listed == {SortedDocuments(selectedDocuments)[i].id :
             i \in 1..Len(SortedDocuments(selectedDocuments))}

\* The end of a drag of a listed entry: over a listed entry, or over nothing.
HandleDragEnd ==
    /\ currentStep = 3
    /\ \E active \in Listed, over \in Listed \cup {Null} :
        /\ lastOp' = Op("drag", active, over)
        /\ IF active = over
           THEN thrown' = FALSE /\ UNCHANGED selectedDocuments
           ELSE IF DragThrows(active, over)
           THEN thrown' = TRUE /\ UNCHANGED selectedDocuments
           ELSE /\ thrown' = FALSE
                /\ selectedDocuments' = Reordered(selectedDocuments, active, over)
    /\ UNCHANGED <<server, naming, ordering, currentStep, formComplete, generation>>

\* The remove button of a listed entry.
RemoveDocument ==
    /\ currentStep = 3
    /\ \E id \in Listed :
        /\ selectedDocuments' = Removed(ordering, selectedDocuments, id)
        /\ lastOp' = Op("remove", id, 0)
    /\ thrown' = FALSE
    /\ UNCHANGED <<server, naming, ordering, currentStep, formComplete, generation>>

\* The move-up button of a listed entry (OrderingB).
MoveDocumentUp ==
    /\ currentStep = 3
    /\ ordering = OrderingB
    /\ \E id \in Listed :
        /\ selectedDocuments' = Moved(selectedDocuments, id, -1)
        /\ lastOp' = Op("moveUp", id, 0)
    /\ thrown' = FALSE
    /\ UNCHANGED <<server, naming, ordering, currentStep, formComplete, generation>>

\* The move-down button of a listed entry (OrderingB).
MoveDocumentDown ==
    /\ currentStep = 3
    /\ ordering = OrderingB
    /\ \E id \in Listed :
        /\ selectedDocuments' = Moved(selectedDocuments, id, 1)
        /\ lastOp' = Op("moveDown", id, 0)
    /\ thrown' = FALSE
    /\ UNCHANGED <<server, naming, ordering, currentStep, formComplete, generation>>

\* resetApp: back to step 1 with an empty form and nothing selected.
ResetApp ==
    /\ currentStep' = 1
    /\ formComplete' = FALSE
    /\ selectedDocuments' = <<>>
    /\ isGenerating' = FALSE
    /\ lastOp' = Op("reset", 0, 0)
    /\ thrown' = FALSE
    /\ UNCHANGED <<server, naming, ordering, generationSteps, closureSteps, genPc, sent,
                   service, generatedPacket>>

\* The application as first opened: step 1, an empty form, nothing selected.
InitSelection ==
    /\ worker = PacketWorker
    /\ pc = "done"
    /\ ServerIdle
    /\ NamingIdle
    /\ ordering \in Orderings
    /\ selectedDocuments = <<>>
    /\ currentStep = 1
    /\ formComplete = FALSE
    /\ isGenerating = FALSE
    /\ generationSteps = <<>>
    /\ closureSteps = <<>>
    /\ genPc = "none"
    /\ sent = <<>>
    /\ service = "none"
    /\ generatedPacket = FALSE
    /\ thrown = FALSE
    /\ lastOp = Op("none", 0, 0)

NextSelection ==
    \/ EditForm
    \/ SubmitForm
    \/ Toggle
    \/ NextStep
    \/ PrevStep
    \/ StepClick
    \/ HandleDragEnd
    \/ RemoveDocument
    \/ MoveDocumentUp
    \/ MoveDocumentDown
    \/ ResetApp

SpecSelection == InitSelection /\ [][NextSelection]_vars

\* ----------------------------------------------------------------- C25 ---
\* The step has appended a newly selected document to the list.
NewlySelected ==
    /\ lastOp'.op = "toggle"
    /\ Len(selectedDocuments') = Len(selectedDocuments) + 1

\* C25: a newly selected document is the last of the merge order: it sorts
\* after every document that was selected already.
C25_NewSelectionSortsLast ==
    [][NewlySelected =>
        LET sorted == SortedDocuments(selectedDocuments')
        IN  sorted[Len(sorted)].id = selectedDocuments'[Len(selectedDocuments')].id]_vars

\* ----------------------------------------------------------------- C26 ---
Unselected(list) == SelectSeq(list, LAMBDA e : ~e.selected)

\* C26: a drag that ends on the dragged entry or on no target changes
\* nothing and raises no error; a drag that ends on another entry puts the
\* dragged entry at that entry's position, numbers the selected entries
\* 0..n-1 in the new arrangement and keeps every unselected entry.
C26_DragEnd ==
    [][lastOp'.op = "drag" =>
        LET active == lastOp'.a
            over == lastOp'.b
            was == SortedDocuments(selectedDocuments)
            now == SortedDocuments(selectedDocuments')
        IN  IF over = active \/ over = Null
            THEN selectedDocuments' = selectedDocuments /\ ~thrown'
            ELSE /\ ~thrown'
                 /\ FindIndex(now, active) = FindIndex(was, over)
                 /\ Len(now) = Len(was)
                 /\ \A i \in 1..Len(now) : now[i].order = i - 1
                 /\ Unselected(selectedDocuments') = Unselected(selectedDocuments)]_vars

\* ----------------------------------------------------------------- C27 ---
Ids(list) == [i \in 1..Len(list) |-> list[i].id]

\* The sequence with the elements at i and j exchanged.
Exchanged(s, i, j) ==
    [k \in 1..Len(s) |-> IF k = i THEN s[j] ELSE IF k = j THEN s[i] ELSE s[k]]

\* C27: moveDocumentUp (moveDocumentDown) exchanges the entry with its
\* neighbour above (below) in the sorted selection and leaves the other
\* entries where they were; on the first (last) entry it changes nothing;
\* after an exchange the selected entries carry the orders 1..n, the same
\* entries are selected and the unselected entries are as they were.
C27_MoveExchangesNeighbours ==
    [][lastOp'.op \in {"moveUp", "moveDown"} =>
        LET by == IF lastOp'.op = "moveUp" THEN -1 ELSE 1
            was == SortedDocuments(selectedDocuments)
            now == SortedDocuments(selectedDocuments')
            i == FindIndex(was, lastOp'.a)
        IN  IF i + by \notin 1..Len(was)
            THEN selectedDocuments' = selectedDocuments
            ELSE /\ Ids(now) = Exchanged(Ids(was), i, i + by)
                 /\ \A k \in 1..Len(now) : now[k].order = k
                 /\ Len(selectedDocuments') = Len(selectedDocuments)
                 /\ \A j \in 1..Len(selectedDocuments) :
                      /\ selectedDocuments'[j].id = selectedDocuments[j].id
                      /\ selectedDocuments'[j].selected = selectedDocuments[j].selected
                      /\ selectedDocuments'[j].document = selectedDocuments[j].document
                      /\ ~selectedDocuments[j].selected =>
                            selectedDocuments'[j] = selectedDocuments[j]]_vars

\* The last of three selected entries has been moved up to the middle.
C27_Witness ==
    /\ lastOp.op = "moveUp"
    /\ Len(SortedDocuments(selectedDocuments)) = 3
    /\ FindIndex(SortedDocuments(selectedDocuments), lastOp.a) = 2

\* ----------------------------------------------------------------- C28 ---
SomeSelected == \E i \in 1..Len(selectedDocuments) : selectedDocuments[i].selected

\* The wizard is within its steps, and in the last only with a selection.
StepInRange == currentStep \in 1..4 /\ (currentStep = 4 => SomeSelected)

\* The wizard lets through a click on a step at or before the current one,
\* and on a later one exactly if every step before it is complete.
ClickRule ==
    /\ \A stepId \in 1..currentStep : CanNavigateToStep(stepId)
    /\ lastOp'.op = "click" =>
          /\ currentStep' = lastOp'.a
          /\ lastOp'.a <= currentStep \/ \A i \in 1..(lastOp'.a - 1) : IsComplete(i)

\* C28: a step at or before the current one can always be navigated to, a
\* later one only if every step before it is complete; from step 1 with
\* nothing selected the wizard stays within steps 1..4 and is in step 4
\* only while a document is selected.
C28_WizardNavigation == []StepInRange /\ [][ClickRule]_vars

\* A click on the last step of the wizard has been let through.
C28_Witness ==
    /\ lastOp = Op("click", 4, 0)
    /\ currentStep = 4

\* =========================================================== generation ===
\* Step 4: PacketGeneration and the PDFService it calls.

\* The progress steps of PacketGeneration, all pending when it is mounted.
StepIds == <<"validate", "cover", "dividers", "merge", "finalize">>

PendingSteps == [i \in 1..Len(StepIds) |-> [id |-> StepIds[i], status |-> "pending"]]

\* updateStepStatus: prev.map(step => step.id === stepId ? {...step, status} : step)
UpdateStepStatus(steps, stepId, status) ==
    [i \in 1..Len(steps) |->
        IF steps[i].id = stepId THEN [steps[i] EXCEPT !.status = status] ELSE steps[i]]

\* Array.prototype.find(step => step.status === 'processing'): the index of
\* the first such step, 0 for undefined.
FindProcessing(steps) ==
    IF \E i \in 1..Len(steps) : steps[i].status = "processing"
    THEN CHOOSE i \in 1..Len(steps) :
            /\ steps[i].status = "processing"
            /\ \A j \in 1..(i - 1) : steps[j].status # "processing"
    ELSE 0

\* The catch of generatePacket: the processing step is looked up in seen,
\* the generationSteps of the render whose generatePacket is running, and
\* marked in the current steps.
MarkProcessingStep(steps, seen) ==
    IF FindProcessing(seen) # 0
    THEN UpdateStepStatus(steps, seen[FindProcessing(seen)].id, "error")
    ELSE steps

\* GeneratingAfter with the flag reset only at the end of the try block.
GeneratingAfterSuccessOnly(failed) == failed

\* isGenerating after generatePacket: finally { onSetGenerating(false) }.
GeneratingAfter(failed) == FALSE

\* canGenerate of PacketGeneration.
CanGenerate == SortedDocuments(selectedDocuments) # <<>> /\ ~isGenerating

\* The two PDFService sources: part_001 sends the order of each document,
\* part_000 does not.
ServiceWithOrder == "part_001"
ServiceWithoutOrder == "part_000"
Services == {ServiceWithOrder, ServiceWithoutOrder}

\* ServiceDocuments without the filter on selected.
ServiceDocumentsUnfiltered(s, list) ==
    LET sorted == SortByOrder(list)
    IN  [i \in 1..Len(sorted) |->
            [id |-> sorted[i].id, document |-> sorted[i].document,
             order |-> IF s = ServiceWithOrder THEN sorted[i].order ELSE Absent]]

\* requestData.documents of PDFService.generatePacket: the selected entries
\* sorted by order, each mapped to a descriptor.
ServiceDocuments(s, list) ==
    LET sorted == SortedDocuments(list)
    IN  [i \in 1..Len(sorted) |->
            [id |-> sorted[i].id, document |-> sorted[i].document,
             order |-> IF s = ServiceWithOrder THEN sorted[i].order ELSE Absent]]

\* if (sortedDocuments.length === 0) throw new Error('No documents selected ...')
ServiceThrows(list) == SortedDocuments(list) = <<>>

\* The step after a progress step.
NextStepId(stepId) ==
    CASE stepId = "validate" -> "cover"
      [] stepId = "cover" -> "dividers"
      [] stepId = "dividers" -> "merge"
      [] OTHER -> "finalize"

selection == <<ordering, selectedDocuments, currentStep, formComplete>>

\* A click on Generate (disabled unless canGenerate): the function of the
\* current render starts, with the generationSteps of that render.
GeneratePacket ==
    /\ currentStep = 4
    /\ genPc = "idle"
    /\ CanGenerate
    /\ isGenerating' = TRUE
    /\ closureSteps' = generationSteps
    /\ generationSteps' = UpdateStepStatus(generationSteps, "validate", "processing")
    /\ genPc' = "validate"
    /\ lastOp' = Op("generate", 0, 0)
    /\ UNCHANGED <<server, naming, selection, sent, service, generatedPacket, thrown>>

\* The timer of the validate, cover or dividers step resolves: the step is
\* completed and the next is processing; entering merge, the service sends
\* the request.
TimerFires ==
    /\ genPc \in {"validate", "cover", "dividers"}
    /\ generationSteps' =
          UpdateStepStatus(UpdateStepStatus(generationSteps, genPc, "completed"),
                           NextStepId(genPc), "processing")
    /\ genPc' = NextStepId(genPc)
    /\ sent' = IF genPc = "dividers"
               THEN <<ServiceDocuments(service, selectedDocuments)>>
               ELSE sent
    /\ UNCHANGED <<server, naming, selection, isGenerating, closureSteps, service,
                   generatedPacket, thrown, lastOp>>

\* The worker answers with a document: merge is completed, finalize begins.
RequestSucceeds ==
    /\ genPc = "merge"
    /\ generationSteps' =
          UpdateStepStatus(UpdateStepStatus(generationSteps, "merge", "completed"),
                           "finalize", "processing")
    /\ genPc' = "finalize"
    /\ UNCHANGED <<server, naming, selection, isGenerating, closureSteps, sent, service,
                   generatedPacket, thrown, lastOp>>

\* The request fails (transport error, non-success status, and for
\* part_000 an empty body): catch, then finally.
RequestFails ==
    /\ genPc = "merge"
    /\ generationSteps' = MarkProcessingStep(generationSteps, closureSteps)
    /\ isGenerating' = GeneratingAfter(TRUE)
    /\ genPc' = "idle"
    /\ lastOp' = Op("failed", 0, 0)
    /\ UNCHANGED <<server, naming, selection, closureSteps, sent, service,
                   generatedPacket, thrown>>

\* The timer of the finalize step resolves: the packet is kept; finally.
Finalize ==
    /\ genPc = "finalize"
    /\ generationSteps' = UpdateStepStatus(generationSteps, "finalize", "completed")
    /\ generatedPacket' = TRUE
    /\ isGenerating' = GeneratingAfter(FALSE)
    /\ genPc' = "idle"
    /\ lastOp' = Op("generated", 0, 0)
    /\ UNCHANGED <<server, naming, selection, closureSteps, sent, service, thrown>>

\* A click on Generate New (shown with a generated packet, disabled while
\* generating): resetGeneration.
ResetGeneration ==
    /\ currentStep = 4
    /\ generatedPacket
    /\ ~isGenerating
    /\ generationSteps' = [i \in 1..Len(generationSteps) |->
                              [generationSteps[i] EXCEPT !.status = "pending"]]
    /\ generatedPacket' = FALSE
    /\ lastOp' = Op("resetGeneration", 0, 0)
    /\ UNCHANGED <<server, naming, selection, isGenerating, closureSteps, genPc, sent,
                   service, thrown>>

\* The lists the selection step builds by selecting documents one after
\* another.
Selections ==
    UNION { { [i \in 1..n |-> [id |-> i, document |-> d[i], order |-> i - 1,
                               selected |-> TRUE]] :
                d \in {f \in [1..n -> Catalogue] :
                         \A i, j \in 1..n : i # j => f[i] # f[j]} }
            : n \in 1..Min(MaxEntries, MaxCatalogue) }

\* Step 4 as it is mounted, with a complete form and a selection.
InitGeneration ==
    /\ worker = PacketWorker
    /\ pc = "done"
    /\ ServerIdle
    /\ NamingIdle
    /\ ordering \in Orderings
    /\ service \in Services
    /\ selectedDocuments \in Selections
    /\ currentStep = 4
    /\ formComplete = TRUE
    /\ isGenerating = FALSE
    /\ generationSteps = PendingSteps
    /\ closureSteps = PendingSteps
    /\ genPc = "idle"
    /\ sent = <<>>
    /\ generatedPacket = FALSE
    /\ thrown = FALSE
    /\ lastOp = Op("none", 0, 0)

NextGeneration ==
    \/ GeneratePacket
    \/ TimerFires
    \/ RequestSucceeds
    \/ RequestFails
    \/ Finalize
    \/ ResetGeneration

SpecGeneration == InitGeneration /\ [][NextGeneration]_vars

\* ----------------------------------------------------------------- C24 ---
\* C24: after a failed generation no progress step is left processing
\* (the step that was processing has been marked as failed).
C24_FailureMarked ==
    (lastOp.op = "failed" /\ genPc = "idle") =>
        /\ FindProcessing(generationSteps) = 0
        /\ \E i \in 1..Len(generationSteps) : generationSteps[i].status = "error"

\* ----------------------------------------------------------------- C29 ---
\* The timers resolve and the worker request settles.
FairSpecGeneration ==
    /\ SpecGeneration
    /\ WF_vars(TimerFires)
    /\ WF_vars(RequestSucceeds \/ RequestFails)
    /\ WF_vars(Finalize)

\* C29: a generation that has been started ends with isGenerating reset,
\* whether the request succeeds or fails; while isGenerating is set
\* canGenerate is false and no generation is started.
C29_GenerationEnds ==
    /\ isGenerating ~> ~isGenerating
    /\ [](isGenerating => ~CanGenerate)
    /\ [][lastOp'.op = "generate" /\ genPc' = "validate" /\ genPc = "idle"
            => ~isGenerating]_vars

\* A generation has failed and the flag is reset.
C29_Witness ==
    /\ lastOp.op = "failed"
    /\ sent # <<>>
    /\ ~isGenerating

\* -------------------------------------------------------------- service ---
\* PDFService.generatePacket called on any list of entries.
EntryLists ==
    UNION { { [i \in 1..n |-> [id |-> i, document |-> i, order |-> o[i],
                               selected |-> s[i]]] :
                o \in [1..n -> 0..MaxEntries], s \in [1..n -> BOOLEAN] }
            : n \in 0..MaxEntries }

\* The service filters and sorts, then throws or sends the request.
CallService ==
    /\ genPc = "service"
    /\ IF ServiceThrows(selectedDocuments)
       THEN thrown' = TRUE /\ UNCHANGED sent
       ELSE /\ sent' = <<ServiceDocuments(service, selectedDocuments)>>
            /\ thrown' = FALSE
    /\ genPc' = "called"
    /\ UNCHANGED <<server, naming, selection, isGenerating, generationSteps,
                   closureSteps, service, generatedPacket, lastOp>>

InitService ==
    /\ worker = PacketWorker
    /\ pc = "done"
    /\ ServerIdle
    /\ NamingIdle
    /\ ordering = OrderingA
    /\ service \in Services
    /\ selectedDocuments \in EntryLists
    /\ currentStep = 4
    /\ formComplete = TRUE
    /\ isGenerating = TRUE
    /\ generationSteps = PendingSteps
    /\ closureSteps = PendingSteps
    /\ genPc = "service"
    /\ sent = <<>>
    /\ generatedPacket = FALSE
    /\ thrown = FALSE
    /\ lastOp = Op("generate", 0, 0)

SpecService == InitService /\ [][CallService]_vars

\* ----------------------------------------------------------------- C30 ---
\* The positions of the list whose entries are selected.
SelectedAt == {i \in 1..Len(selectedDocuments) : selectedDocuments[i].selected}

\* The position in the list of the entry with this id.
PositionOf(id) == CHOOSE i \in 1..Len(selectedDocuments) : selectedDocuments[i].id = id

\* C30: the service sends exactly the selected entries, in ascending order
\* of their order values and, among equal values, in list order; with no
\* entry selected it throws and sends no request.
C30_SendsSelectedInOrder ==
    genPc = "called" =>
        IF SelectedAt = {}
        THEN thrown /\ sent = <<>>
        ELSE /\ ~thrown
             /\ Len(sent) = 1
             /\ Len(sent[1]) = Cardinality(SelectedAt)
             /\ {PositionOf(sent[1][k].id) : k \in 1..Len(sent[1])} = SelectedAt
             /\ \A j, k \in 1..Len(sent[1]) :
                  j < k =>
                    LET a == selectedDocuments[PositionOf(sent[1][j].id)]
                        b == selectedDocuments[PositionOf(sent[1][k].id)]
                    IN  \/ a.order < b.order
                        \/ a.order = b.order /\ PositionOf(a.id) < PositionOf(b.id)

\* Three entries, two of them selected with the later one ordered first,
\* have been sent.
C30_Witness ==
    /\ genPc = "called"
    /\ Len(selectedDocuments) = 3
    /\ Cardinality(SelectedAt) = 2
    /\ Len(sent) = 1
    /\ PositionOf(sent[1][1].id) > PositionOf(sent[1][2].id)

=============================================================================
